---- MODULE Spec2Model ----
(***************************************************************************)
(* A model of the Swarmathon gripper plugin                                *)
(* (src/src/gazebo_plugins/src/GripperPlugin/GripperPlugin.cpp).           *)
(*                                                                         *)
(* Two threads run the plugin's code.  The physics thread runs Load once   *)
(* and then updateWorldEventHandler at the beginning of every world update *)
(* iteration; the queue helper thread runs processRosQueue, which calls    *)
(* setWristAngleHandler and setFingerAngleHandler.                         *)
(*                                                                         *)
(* Units.  Simulation time, updatePeriod, debugUpdatePeriod and the PID    *)
(* time step dt are integers counting milliseconds (TimeScale per second). *)
(* Angles are integers counting a fixed angular quantum; every angle that  *)
(* enters the model is a multiple of 8 quanta (targets) or of 4 quanta     *)
(* (measurements), so that the halving of line 163/164 and the division by *)
(* dt are exact, as they are on binary floating point values.  Gains and   *)
(* forces are integers counting tenths (the default Kp = 2.5 is 25, the    *)
(* default force limit 10.0 N is 100).  Of the rounding of float           *)
(* arithmetic the model keeps what decides a branch: the conversion of an  *)
(* elapsed time by common::Time::Float() (lines 140 and 177), which falls  *)
(* just short of some durations when it is computed in single precision.   *)
(*                                                                         *)
(* A field that C++ leaves indeterminate until it is assigned is <<>>      *)
(* until then and <<v>> afterwards; an SDF element is <<>> when the        *)
(* document lacks it and <<v>> when it holds v.                            *)
(***************************************************************************)
EXTENDS Integers, Sequences, FiniteSets

\* ------------------------------------------------------------- bounds

\* The simulation clock stops advancing at MaxTime milliseconds.
MaxTime == 4

\* ------------------------------------------------- program constants

\* Milliseconds per second: the 1.0 of "updatePeriod = 1.0 / updateRate".
TimeScale == 1000

\* "missing <updateRate> tag, defaulting to 1000.0"
DefaultUpdateRate == 1000

\* "defaulting to 3.0 seconds", in milliseconds
DefaultDebugUpdatePeriod == 3000

\* math::Vector3(2.5, 0.0, 0.0), in tenths
DefaultPID == <<25, 0, 0>>

\* math::Vector2d(-10.0, 10.0), in tenths
DefaultForceLimits == <<-100, 100>>

\* ------------------------------------------------- the SDF document

Missing == <<>>

Element(v) == <<v>>

HasElement(e) == Len(e) > 0

Get(e) == e[1]

\* The joints the rover model has (physics::Model::GetJoint finds these).
ModelJoints == {"gripper_wrist_joint", "gripper_left_joint", "gripper_right_joint"}

GetJoint(jointName) == IF jointName \in ModelJoints THEN jointName ELSE "null"

DebugElements ==
    {Missing} \cup
    { Element([printToConsole |-> p, printDelayInSeconds |-> d]) :
        p \in {Missing, Element("true"), Element("false"), Element("yes")},
        d \in {Missing, Element(0), Element(1), Element(2)} }

UpdateRateElements == {Missing, Element(-5), Element(0), Element(250), Element(500)}

WristJointElements == {Missing, Element("no_such_joint"), Element("gripper_wrist_joint")}

LeftFingerJointElements == {Missing, Element("no_such_joint"), Element("gripper_left_joint")}

RightFingerJointElements == {Missing, Element("no_such_joint"), Element("gripper_right_joint")}

PIDElements == {Missing, Element(<<10, 10, 10>>)}

ForceLimitsElements == {Missing, Element(<<-50, 50>>), Element(<<50, -50>>)}

WristTopicElements == {Missing, Element("gripper/wristAngle/cmd")}

FingerTopicElements == {Missing, Element("gripper/fingerAngle/cmd")}

\* Every document the per-element sets allow.
SdfDocuments ==
    [ debug : DebugElements,
      updateRate : UpdateRateElements,
      wristJoint : WristJointElements,
      leftFingerJoint : LeftFingerJointElements,
      rightFingerJoint : RightFingerJointElements,
      wristPID : PIDElements,
      wristForceLimits : ForceLimitsElements,
      fingerPID : PIDElements,
      fingerForceLimits : ForceLimitsElements,
      wristTopic : WristTopicElements,
      fingerTopic : FingerTopicElements ]

\* The documents of the runs that go on to simulate: every value of the
\* elements that decide whether Load survives; of the elements that only
\* tune a surviving run, the wrist settings configured, the finger settings
\* left at their defaults, and a debug element that is absent or switches
\* debugging on; with the default update rate, whose runs are the longest,
\* debugging is on with the default delay.
RunDocuments ==
    { d \in SdfDocuments :
        /\ \/ d.debug = Missing
           \/ /\ HasElement(d.debug)
              /\ Get(d.debug).printToConsole = Element("true")
        /\ d.updateRate = Missing =>
              /\ HasElement(d.debug)
              /\ Get(d.debug).printDelayInSeconds = Missing
        /\ d.wristPID # Missing
        /\ d.wristForceLimits # Missing
        /\ d.fingerPID = Missing
        /\ d.fingerForceLimits = Missing }

\* The documents of the runs that exercise the optional elements: the
\* mandatory elements are those of a Load that survives, with a period of
\* 4 ms, and either the debug element or the four PID elements take every
\* value while the others are absent.
LoadDocuments ==
    { d \in SdfDocuments :
        /\ d.updateRate = Element(250)
        /\ d.wristJoint = Element("gripper_wrist_joint")
        /\ d.leftFingerJoint = Element("gripper_left_joint")
        /\ d.rightFingerJoint = Element("gripper_right_joint")
        /\ d.wristTopic # Missing
        /\ d.fingerTopic # Missing
        /\ \/ d.debug = Missing
           \/ /\ d.wristPID = Missing
              /\ d.wristForceLimits = Missing
              /\ d.fingerPID = Missing
              /\ d.fingerForceLimits = Missing }

\* The documents that configure the mandatory elements and take every
\* value of updateRate, with debugging on at the default delay.
RateDocuments ==
    { d \in SdfDocuments :
        /\ d.debug = Element([printToConsole |-> Element("true"),
                              printDelayInSeconds |-> Missing])
        /\ d.wristJoint = Element("gripper_wrist_joint")
        /\ d.leftFingerJoint = Element("gripper_left_joint")
        /\ d.rightFingerJoint = Element("gripper_right_joint")
        /\ d.wristPID = Missing
        /\ d.wristForceLimits = Missing
        /\ d.fingerPID = Missing
        /\ d.fingerForceLimits = Missing
        /\ d.wristTopic # Missing
        /\ d.fingerTopic # Missing }

\* The document that configures the mandatory elements only.
PlainDocuments ==
    { d \in LoadDocuments :
        /\ d.debug = Missing
        /\ d.wristPID = Missing
        /\ d.wristForceLimits = Missing
        /\ d.fingerPID = Missing
        /\ d.fingerForceLimits = Missing }

\* The documents whose controllers are purely integral, with Ki = 1.0: the
\* mandatory elements and the default update rate, debugging on with the
\* default delay, wrist limits that no run reaches and finger limits of
\* -5.0 and 5.0.
IntegralDocuments ==
    { [d EXCEPT !.updateRate = Missing,
                !.debug = Element([printToConsole |-> Element("true"),
                                   printDelayInSeconds |-> Missing]),
                !.wristPID = Element(<<0, 10, 0>>),
                !.wristForceLimits = Element(<<-100000, 100000>>),
                !.fingerPID = Element(<<0, 10, 0>>),
                !.fingerForceLimits = Element(<<-50, 50>>)] : d \in PlainDocuments }

\* The documents of the runs that exercise the checks of Load: those of
\* RunDocuments with an updateRate that ends the process or gives a period
\* of 4 ms.
OrderDocuments ==
    { d \in RunDocuments : d.updateRate \in {Element(-5), Element(0), Element(250)} }

\* ------------------------------------------------------ environment

\* Angles published on the wrist and finger topics.
WristMessages == {-8, 8}

FingerMessages == {-8}

\* Joint angles the physics engine reports (wrist, left finger, right finger).
MeasuredStates ==
    { [wristAngle |-> 0, leftFingerAngle |-> 0, rightFingerAngle |-> 0],
      [wristAngle |-> 4, leftFingerAngle |-> 4, rightFingerAngle |-> -4] }

\* The simulation times at which Gazebo may call Load.
LoadTimes == {0, 1}

\* Values an indeterminate float may turn out to hold when it is read, in
\* milliseconds: one that every elapsed time reaches (zero or negative) and
\* one that no elapsed time of a run reaches (as a large value or a NaN
\* does); a value in between behaves as the one or the other at each read.
IndeterminateFloats == {-1, MaxTime + 1}

VARIABLES
    sdf,                      \* the plugin's SDF element
    rosInitialized,           \* ros::isInitialized()
    simTime,                  \* model->GetWorld()->GetSimTime()
    pc,                       \* position of the physics thread
    rosout,                   \* diagnostics emitted so far
    previousUpdateTime,
    previousDebugUpdateTime,
    isDebuggingModeActive,
    debugUpdatePeriod,
    updatePeriod,
    wristJoint,
    leftFingerJoint,
    rightFingerJoint,
    gripperManager,           \* <<>> or <<the three PID controllers>>
    history,                  \* <<>>, or <<the load time and the getForces calls so far>>
    updateConnection,         \* the handler is connected to WorldUpdateBegin
    rosNode,                  \* "null", "ok" or "shutdown"
    subscribeOptions,         \* the ros::SubscribeOptions Load has created
    subscribers,              \* the subscriptions of rosNode
    rosQueueThread,           \* position of the queue helper thread
    desiredWristAngle,
    desiredFingerAngle,
    currentState,             \* locals of updateWorldEventHandler
    desiredState,
    commandForces,
    jointForce,               \* the force last set on each joint
    polledAt,                 \* <<>> or <<the time of the handler's latest call>>
    polledBefore,             \* <<>> or <<the time of its call before that one>>
    gate,                     \* "none", or how that call went: "skip" or "fire"
    debugGate,                \* whether that call entered the debug branch
    snapshot,                 \* the debug statement that call printed, if any
    forceWrites,              \* the SetForce calls of the handler's latest call
    getForcesCalls,           \* the getForces calls of the handler's latest call
    fingerReads,              \* its reads of desiredFingerAngle
    wristReads                \* its reads of desiredWristAngle

configVars == <<sdf, rosInitialized>>

loadVars ==
    <<isDebuggingModeActive, debugUpdatePeriod, updatePeriod, wristJoint,
      leftFingerJoint, rightFingerJoint, updateConnection, rosNode, subscribeOptions, subscribers>>

targetVars == <<desiredWristAngle, desiredFingerAngle>>

localVars == <<currentState, desiredState, commandForces>>

callVars == <<polledAt, polledBefore, gate, debugGate, snapshot, forceWrites, getForcesCalls, fingerReads, wristReads>>

vars ==
    <<sdf, rosInitialized, simTime, pc, rosout, previousUpdateTime,
      previousDebugUpdateTime, isDebuggingModeActive, debugUpdatePeriod,
      updatePeriod, wristJoint, leftFingerJoint, rightFingerJoint,
      gripperManager, history, updateConnection, rosNode,
      subscribeOptions, subscribers, rosQueueThread,
      desiredWristAngle, desiredFingerAngle, currentState, desiredState,
      commandForces, jointForce, polledAt, polledBefore, gate, debugGate,
      snapshot, forceWrites, getForcesCalls, fingerReads, wristReads>>

\* ------------------------------------ PIDController and GripperManager

\* PIDController::PIDSettings are usable: dt > 0 and min <= max.
SettingsValid(settings) == settings.dt > 0 /\ settings.min <= settings.max

\* A PIDController as constructed: zero integral, zero previous error.
NewPIDController(settings) ==
    [settings |-> settings, integral |-> 0, previousError |-> 0]

Clamp(raw, lo, hi) == IF raw < lo THEN lo ELSE IF raw > hi THEN hi ELSE raw

\* compute with anti-windup: the integral is kept as it was when the raw
\* output is outside the limits.
ComputeAntiWindup(controller, setpoint, measurement) ==
    LET s == controller.settings
        error == setpoint - measurement
        integral == controller.integral + error * s.dt
        derivative == (error - controller.previousError) \div s.dt
        raw == s.Kp * error + s.Ki * integral + s.Kd * derivative
    IN  [ force |-> Clamp(raw, s.min, s.max),
          controller |-> [controller EXCEPT
                            !.integral = IF raw < s.min \/ raw > s.max
                                         THEN controller.integral ELSE integral,
                            !.previousError = error] ]

\* PIDController::compute(setpoint, measurement): the force and the
\* controller afterwards.
Compute(controller, setpoint, measurement) ==
    LET s == controller.settings
        error == setpoint - measurement
        integral == controller.integral + error * s.dt
        derivative == (error - controller.previousError) \div s.dt
        raw == s.Kp * error + s.Ki * integral + s.Kd * derivative
    IN  [ force |-> Clamp(raw, s.min, s.max),
          controller |-> [controller EXCEPT !.integral = integral,
                                            !.previousError = error] ]

\* GripperManager(jointNames, wristPID, fingerPID): the finger settings
\* parameterize both finger controllers.
NewGripperManager(jointNames, wristPID, fingerPID) ==
    [ jointNames |-> jointNames,
      wrist |-> NewPIDController(wristPID),
      leftFinger |-> NewPIDController(fingerPID),
      rightFinger |-> NewPIDController(fingerPID) ]

\* Construction that validates the wrist settings only.
ManagerRejectsWristOnly(wristPID, fingerPID) ==
    ~SettingsValid(wristPID)

\* Construction fails fast when either settings object is unusable.
ManagerRejects(wristPID, fingerPID) ==
    ~SettingsValid(wristPID) \/ ~SettingsValid(fingerPID)

\* GripperManager::getForces(desired, current): the three forces and the
\* manager afterwards.
GetForces(manager, desired, current) ==
    LET w == Compute(manager.wrist, desired.wristAngle, current.wristAngle)
        l == Compute(manager.leftFinger, desired.leftFingerAngle, current.leftFingerAngle)
        r == Compute(manager.rightFinger, desired.rightFingerAngle, current.rightFingerAngle)
    IN  [ forces |-> [wristForce |-> w.force,
                      leftFingerForce |-> l.force,
                      rightFingerForce |-> r.force],
          manager |-> [manager EXCEPT !.wrist = w.controller,
                                      !.leftFinger = l.controller,
                                      !.rightFinger = r.controller] ]

\* ------------------------------------------------- the load functions

\* loadDebugMode() with line 269 as "compare("false") != 0": every value of
\* printToConsole but "false" switches debugging on.
loadDebugModeUnlessFalse(doc, period) ==
    IF /\ HasElement(doc.debug)
       /\ HasElement(Get(doc.debug).printToConsole)
       /\ Get(Get(doc.debug).printToConsole) # "false"
    THEN [ isDebuggingModeActive |-> TRUE,
           debugUpdatePeriod |-> <<DefaultDebugUpdatePeriod>>,
           exit |-> FALSE,
           log |-> {} ]
    ELSE [ isDebuggingModeActive |-> FALSE,
           debugUpdatePeriod |-> period,
           exit |-> FALSE,
           log |-> {} ]

\* loadDebugMode() with the test of printDelayInSeconds (lines 272-284)
\* ahead of the test of printToConsole.
loadDebugModeDelayFirst(doc, period) ==
    LET debug == IF HasElement(doc.debug) THEN Get(doc.debug)
                 ELSE [printToConsole |-> Missing, printDelayInSeconds |-> Missing]
        active == debug.printToConsole = Element("true")
    IN  IF HasElement(debug.printDelayInSeconds) /\ Get(debug.printDelayInSeconds) <= 0
        THEN [ isDebuggingModeActive |-> active,
               debugUpdatePeriod |-> debug.printDelayInSeconds,
               exit |-> TRUE,
               log |-> {"error: printDelayInSeconds cannot be <= 0.0"} ]
        ELSE [ isDebuggingModeActive |-> active,
               debugUpdatePeriod |->
                   IF ~active THEN period
                   ELSE IF HasElement(debug.printDelayInSeconds)
                        THEN debug.printDelayInSeconds
                        ELSE <<DefaultDebugUpdatePeriod>>,
               exit |-> FALSE,
               log |-> {} ]

\* loadDebugMode(): the flag, the debug period (left as it was unless the
\* function assigns it), whether exit(1) is called, and the diagnostics.
loadDebugMode(doc, period) ==
    IF HasElement(doc.debug)
    THEN LET debug == Get(doc.debug) IN
         IF HasElement(debug.printToConsole)
         THEN LET debugString == Get(debug.printToConsole) IN
              IF debugString = "true"
              THEN IF HasElement(debug.printDelayInSeconds)
                   THEN LET delay == Get(debug.printDelayInSeconds) IN
                        IF delay <= 0
                        THEN [ isDebuggingModeActive |-> TRUE,
                               debugUpdatePeriod |-> <<delay>>,
                               exit |-> TRUE,
                               log |-> {"error: printDelayInSeconds cannot be <= 0.0"} ]
                        ELSE [ isDebuggingModeActive |-> TRUE,
                               debugUpdatePeriod |-> <<delay>>,
                               exit |-> FALSE,
                               log |-> {} ]
                   ELSE [ isDebuggingModeActive |-> TRUE,
                          debugUpdatePeriod |-> <<DefaultDebugUpdatePeriod>>,
                          exit |-> FALSE,
                          log |-> {"info: missing <printDelayInSeconds>, defaulting to 3.0 seconds"} ]
              ELSE [ isDebuggingModeActive |-> FALSE,
                     debugUpdatePeriod |-> period,
                     exit |-> FALSE,
                     log |-> IF debugString # "false"
                             THEN {"info: invalid value in <printToConsole>, defaulting to false"}
                             ELSE {} ]
         ELSE [ isDebuggingModeActive |-> FALSE,
                debugUpdatePeriod |-> period,
                exit |-> FALSE,
                log |-> {"info: missing <printToConsole>, defaulting to false"} ]
    ELSE [ isDebuggingModeActive |-> FALSE,
           debugUpdatePeriod |-> period,
           exit |-> FALSE,
           log |-> {"info: missing <debug>, defaulting to false"} ]

\* loadUpdatePeriod() with line 345 as "updatePeriod = updateRate".
loadUpdatePeriodNoReciprocal(doc, period) ==
    IF ~HasElement(doc.updateRate)
    THEN [ updatePeriod |-> <<DefaultUpdateRate>>,
           exit |-> FALSE,
           log |-> {"info: missing <updateRate>, defaulting to 1000.0"} ]
    ELSE LET updateRate == Get(doc.updateRate) IN
         IF updateRate <= 0
         THEN [ updatePeriod |-> period,
                exit |-> TRUE,
                log |-> {"error: updateRate cannot be <= 0.0"} ]
         ELSE [ updatePeriod |-> <<updateRate>>,
                exit |-> FALSE,
                log |-> {} ]

\* loadUpdatePeriod(): the update period (left as it was on the fatal path),
\* whether exit(1) is called, and the diagnostics.
loadUpdatePeriod(doc, period) ==
    IF ~HasElement(doc.updateRate)
    THEN [ updatePeriod |-> <<TimeScale \div DefaultUpdateRate>>,
           exit |-> FALSE,
           log |-> {"info: missing <updateRate>, defaulting to 1000.0"} ]
    ELSE LET updateRate == Get(doc.updateRate) IN
         IF updateRate <= 0
         THEN [ updatePeriod |-> period,
                exit |-> TRUE,
                log |-> {"error: updateRate cannot be <= 0.0"} ]
         ELSE [ updatePeriod |-> <<TimeScale \div updateRate>>,
                exit |-> FALSE,
                log |-> {} ]

\* loadJoint(jointTag) without the test of line 391.
loadJointUnchecked(doc, jointTag) ==
    IF HasElement(doc[jointTag])
    THEN [ joint |-> GetJoint(Get(doc[jointTag])), exit |-> FALSE, log |-> {} ]
    ELSE [ joint |-> "null", exit |-> TRUE,
           log |-> {"error: No <" \o jointTag \o "> tag is defined"} ]

\* loadJoint(jointTag): the joint returned, whether exit(1) is called, and
\* the diagnostics.
loadJoint(doc, jointTag) ==
    IF HasElement(doc[jointTag])
    THEN LET jointName == Get(doc[jointTag])
             joint == GetJoint(jointName)
         IN  IF joint = "null"
             THEN [ joint |-> "null", exit |-> TRUE,
                    log |-> {"error: No " \o jointName \o " joint is defined"} ]
             ELSE [ joint |-> joint, exit |-> FALSE, log |-> {} ]
    ELSE [ joint |-> "null", exit |-> TRUE,
           log |-> {"error: No <" \o jointTag \o "> tag is defined"} ]

\* loadSubscriptionTopic(topicTag) without the exit of its else branch.
loadSubscriptionTopicUnchecked(doc, topicTag) ==
    [ topic |-> IF HasElement(doc[topicTag]) THEN Get(doc[topicTag]) ELSE "",
      exit |-> FALSE,
      log |-> {} ]

\* loadSubscriptionTopic(topicTag): the topic returned, whether exit(1) is
\* called, and the diagnostics.
loadSubscriptionTopic(doc, topicTag) ==
    IF HasElement(doc[topicTag])
    THEN [ topic |-> Get(doc[topicTag]), exit |-> FALSE, log |-> {} ]
    ELSE [ topic |-> "", exit |-> TRUE,
           log |-> {"error: No <" \o topicTag \o "> tag is defined"} ]

\* loadPIDSettings(PIDTag) with one test for both elements: the defaults
\* are used unless the PID and the ForceLimits elements are both present.
loadPIDSettingsOneTest(doc, PIDTag, dt) ==
    LET both == HasElement(doc[PIDTag \o "PID"]) /\ HasElement(doc[PIDTag \o "ForceLimits"])
        pid == IF both THEN Get(doc[PIDTag \o "PID"]) ELSE DefaultPID
        forceLimits == IF both THEN Get(doc[PIDTag \o "ForceLimits"])
                       ELSE DefaultForceLimits
    IN  [ settings |-> << [ Kp |-> pid[1], Ki |-> pid[2], Kd |-> pid[3],
                            dt |-> dt,
                            min |-> forceLimits[1], max |-> forceLimits[2] ] >>,
          exit |-> FALSE,
          log |-> (IF HasElement(doc[PIDTag \o "PID"]) THEN {}
                   ELSE {"info: missing <" \o PIDTag \o "PID>, defaulting to P=2.5, I=0.0, D=0.0"})
                  \cup
                  (IF HasElement(doc[PIDTag \o "ForceLimits"]) THEN {}
                   ELSE {"info: missing <" \o PIDTag \o "ForceLimits>, defaulting to -10.0, 10.0"}) ]

\* loadPIDSettings(PIDTag) with line 451 as "settings.dt = 1.0".
loadPIDSettingsUnitStep(doc, PIDTag, dt) ==
    LET hasPID == HasElement(doc[PIDTag \o "PID"])
        hasLimits == HasElement(doc[PIDTag \o "ForceLimits"])
        pid == IF hasPID THEN Get(doc[PIDTag \o "PID"]) ELSE DefaultPID
        forceLimits == IF hasLimits THEN Get(doc[PIDTag \o "ForceLimits"])
                       ELSE DefaultForceLimits
    IN  [ settings |-> << [ Kp |-> pid[1], Ki |-> pid[2], Kd |-> pid[3],
                            dt |-> TimeScale,
                            min |-> forceLimits[1], max |-> forceLimits[2] ] >>,
          exit |-> FALSE,
          log |-> {} ]

\* loadPIDSettings(PIDTag), with dt the update period at the time of the call.
loadPIDSettings(doc, PIDTag, dt) ==
    IF PIDTag # "wrist" /\ PIDTag # "finger"
    THEN [ settings |-> <<>>, exit |-> TRUE,
           log |-> {"error: PIDTag " \o PIDTag \o " is invalid"} ]
    ELSE LET hasPID == HasElement(doc[PIDTag \o "PID"])
             hasLimits == HasElement(doc[PIDTag \o "ForceLimits"])
             pid == IF hasPID THEN Get(doc[PIDTag \o "PID"]) ELSE DefaultPID
             forceLimits == IF hasLimits THEN Get(doc[PIDTag \o "ForceLimits"])
                            ELSE DefaultForceLimits
         IN  [ settings |-> << [ Kp |-> pid[1], Ki |-> pid[2], Kd |-> pid[3],
                                 dt |-> dt,
                                 min |-> forceLimits[1], max |-> forceLimits[2] ] >>,
               exit |-> FALSE,
               log |-> (IF hasPID THEN {}
                        ELSE {"info: missing <" \o PIDTag \o "PID>, defaulting to P=2.5, I=0.0, D=0.0"})
                       \cup
                       (IF hasLimits THEN {}
                        ELSE {"info: missing <" \o PIDTag \o "ForceLimits>, defaulting to -10.0, 10.0"}) ]

\* ---------------------------------------------------------------- Init

\* A record extended by one field, as an assignment to a struct member does.
Assign(struct, member, value) ==
    [ m \in DOMAIN struct \cup {member} |-> IF m = member THEN value ELSE struct[m] ]

\* The plugin as constructed, before Gazebo calls Load: the times and the
\* angles are zero (their default constructors), the floats indeterminate.
InitWith(documents) ==
    /\ sdf \in documents
    /\ rosInitialized \in BOOLEAN
    /\ simTime \in LoadTimes
    /\ pc = "Load"
    /\ rosout = {}
    /\ previousUpdateTime = 0
    /\ previousDebugUpdateTime = 0
    /\ isDebuggingModeActive = FALSE
    /\ debugUpdatePeriod = <<>>
    /\ updatePeriod = <<>>
    /\ wristJoint = "null"
    /\ leftFingerJoint = "null"
    /\ rightFingerJoint = "null"
    /\ gripperManager = <<>>
    /\ updateConnection = FALSE
    /\ rosNode = "null"
    /\ subscribeOptions = {}
    /\ subscribers = {}
    /\ rosQueueThread = "unstarted"
    /\ desiredWristAngle = 0
    /\ desiredFingerAngle = 0
    /\ currentState = <<>>
    /\ desiredState = <<>>
    /\ commandForces = <<>>
    /\ jointForce = [wrist |-> <<>>, leftFinger |-> <<>>, rightFinger |-> <<>>]
    /\ polledAt = <<>>
    /\ polledBefore = <<>>
    /\ gate = "none"
    /\ debugGate = FALSE
    /\ snapshot = <<>>
    /\ forceWrites = <<>>
    /\ getForcesCalls = 0
    /\ fingerReads = 0
    /\ wristReads = 0

\* A run with no history kept, a run whose history starts at Load with no
\* getForces call made, and one whose history keeps the wrist errors of the
\* calls as well.
NoHistory == history = <<>>

HistoryFromLoad == history = <<[loadTime |-> simTime, fires |-> 0]>>

HistoryOfErrors == history = <<[loadTime |-> simTime, fires |-> 0, wristErrors |-> {}]>>

\* One more getForces call, with the given desired and measured states, in
\* a history that is kept.
RecordGetForces(h, desired, current) ==
    IF h = <<>> THEN h
    ELSE IF "wristErrors" \in DOMAIN Get(h)
    THEN <<[Get(h) EXCEPT !.fires = @ + 1,
                          !.wristErrors = @ \cup {desired.wristAngle - current.wristAngle}]>>
    ELSE <<[Get(h) EXCEPT !.fires = @ + 1]>>

Init == InitWith(RunDocuments) /\ NoHistory

\* ---------------------------------------------------------------- Load

\* What no step of Load touches.
LoadFrame ==
    UNCHANGED <<configVars, simTime, targetVars, localVars, jointForce, callVars>>

\* Load without lines 20-23: the update times stay at the zero of their
\* constructors.
LoadBeginUnstamped ==
    /\ pc = "Load"
    /\ pc' = "loadDebugMode"
    /\ UNCHANGED <<previousUpdateTime, previousDebugUpdateTime>>
    /\ UNCHANGED <<configVars, simTime, targetVars, localVars, jointForce, callVars>>
    /\ UNCHANGED <<rosout, loadVars, gripperManager, history, rosQueueThread>>

\* Lines 20-23.
LoadBegin ==
    /\ pc = "Load"
    /\ previousUpdateTime' = simTime
    /\ previousDebugUpdateTime' = simTime
    /\ pc' = "loadDebugMode"
    /\ LoadFrame
    /\ UNCHANGED <<rosout, loadVars, gripperManager, history, rosQueueThread>>

\* Line 26.
LoadDebugMode ==
    /\ pc = "loadDebugMode"
    /\ LET r == loadDebugMode(sdf, debugUpdatePeriod) IN
        /\ isDebuggingModeActive' = r.isDebuggingModeActive
        /\ debugUpdatePeriod' = r.debugUpdatePeriod
        /\ rosout' = rosout \cup r.log
        /\ pc' = IF r.exit THEN "exited" ELSE "loadUpdatePeriod"
    /\ LoadFrame
    /\ UNCHANGED <<previousUpdateTime, previousDebugUpdateTime, updatePeriod,
                   wristJoint, leftFingerJoint, rightFingerJoint, gripperManager, history,
                   updateConnection, rosNode, subscribeOptions, subscribers, rosQueueThread>>

\* Line 32.
LoadUpdatePeriod ==
    /\ pc = "loadUpdatePeriod"
    /\ LET r == loadUpdatePeriod(sdf, updatePeriod) IN
        /\ updatePeriod' = r.updatePeriod
        /\ rosout' = rosout \cup r.log
        /\ pc' = IF r.exit THEN "exited" ELSE "loadWristJoint"
    /\ LoadFrame
    /\ UNCHANGED <<previousUpdateTime, previousDebugUpdateTime,
                   isDebuggingModeActive, debugUpdatePeriod,
                   wristJoint, leftFingerJoint, rightFingerJoint, gripperManager, history,
                   updateConnection, rosNode, subscribeOptions, subscribers, rosQueueThread>>

\* Line 39.
LoadWristJoint ==
    /\ pc = "loadWristJoint"
    /\ LET r == loadJoint(sdf, "wristJoint") IN
        /\ wristJoint' = IF r.exit THEN wristJoint ELSE r.joint
        /\ rosout' = rosout \cup r.log
        /\ pc' = IF r.exit THEN "exited" ELSE "loadLeftFingerJoint"
    /\ LoadFrame
    /\ UNCHANGED <<previousUpdateTime, previousDebugUpdateTime,
                   isDebuggingModeActive, debugUpdatePeriod, updatePeriod,
                   leftFingerJoint, rightFingerJoint, gripperManager, history,
                   updateConnection, rosNode, subscribeOptions, subscribers, rosQueueThread>>

\* Line 40.
LoadLeftFingerJoint ==
    /\ pc = "loadLeftFingerJoint"
    /\ LET r == loadJoint(sdf, "leftFingerJoint") IN
        /\ leftFingerJoint' = IF r.exit THEN leftFingerJoint ELSE r.joint
        /\ rosout' = rosout \cup r.log
        /\ pc' = IF r.exit THEN "exited" ELSE "loadRightFingerJoint"
    /\ LoadFrame
    /\ UNCHANGED <<previousUpdateTime, previousDebugUpdateTime,
                   isDebuggingModeActive, debugUpdatePeriod, updatePeriod,
                   wristJoint, rightFingerJoint, gripperManager, history,
                   updateConnection, rosNode, subscribeOptions, subscribers, rosQueueThread>>

\* Line 41.
LoadRightFingerJoint ==
    /\ pc = "loadRightFingerJoint"
    /\ LET r == loadJoint(sdf, "rightFingerJoint") IN
        /\ rightFingerJoint' = IF r.exit THEN rightFingerJoint ELSE r.joint
        /\ rosout' = rosout \cup r.log
        /\ pc' = IF r.exit THEN "exited" ELSE "initGripperManager"
    /\ LoadFrame
    /\ UNCHANGED <<previousUpdateTime, previousDebugUpdateTime,
                   isDebuggingModeActive, debugUpdatePeriod, updatePeriod,
                   wristJoint, leftFingerJoint, gripperManager, history,
                   updateConnection, rosNode, subscribeOptions, subscribers, rosQueueThread>>

\* The names Load gives the manager (lines 50-55); the model is "rover".
JointNames ==
    [ wristJointName |-> "rover_" \o wristJoint,
      leftFingerJointName |-> "rover_" \o leftFingerJoint,
      rightFingerJointName |-> "rover_" \o rightFingerJoint ]

\* Lines 49-57: the joint names and the two calls of loadPIDSettings.
InitGripperManager ==
    /\ pc = "initGripperManager"
    /\ LET w == loadPIDSettings(sdf, "wrist", Get(updatePeriod))
           f == loadPIDSettings(sdf, "finger", Get(updatePeriod))
       IN  IF w.exit
           THEN /\ rosout' = rosout \cup w.log
                /\ pc' = "exited"
           ELSE IF f.exit
           THEN /\ rosout' = rosout \cup w.log \cup f.log
                /\ pc' = "exited"
           ELSE /\ rosout' = rosout \cup w.log \cup f.log
                /\ pc' = "GripperManager"
    /\ LoadFrame
    /\ UNCHANGED <<previousUpdateTime, previousDebugUpdateTime, loadVars,
                   gripperManager, history, rosQueueThread>>

\* The locals wristPID and fingerPID of lines 56 and 57, as line 58 reads them.
WristPID == Get(loadPIDSettings(sdf, "wrist", Get(updatePeriod)).settings)

FingerPID == Get(loadPIDSettings(sdf, "finger", Get(updatePeriod)).settings)

\* The constructor that line 58 calls: it ends the process when it rejects
\* the settings; otherwise line 58 assigns the manager it has built.
GripperManagerConstructor ==
    /\ pc = "GripperManager"
    /\ IF ManagerRejects(WristPID, FingerPID)
       THEN /\ rosout' = rosout \cup {"error: invalid PIDSettings"}
            /\ pc' = "exited"
            /\ UNCHANGED gripperManager
       ELSE /\ gripperManager' = <<NewGripperManager(JointNames, WristPID, FingerPID)>>
            /\ pc' = "connectUpdate"
            /\ UNCHANGED rosout
    /\ LoadFrame
    /\ UNCHANGED <<previousUpdateTime, previousDebugUpdateTime, loadVars, history,
                   rosQueueThread>>

\* Lines 72-74.
ConnectWorldUpdateBegin ==
    /\ pc = "connectUpdate"
    /\ updateConnection' = TRUE
    /\ pc' = "rosCheck"
    /\ LoadFrame
    /\ UNCHANGED <<rosout, previousUpdateTime, previousDebugUpdateTime,
                   isDebuggingModeActive, debugUpdatePeriod, updatePeriod,
                   wristJoint, leftFingerJoint, rightFingerJoint, gripperManager, history,
                   rosNode, subscribeOptions, subscribers, rosQueueThread>>

\* Lines 80-87 without the test of line 80: the node is made and Load goes
\* on whether or not ROS has been initialised.
InitRosNodeUnchecked ==
    /\ pc = "rosCheck"
    /\ rosNode' = "ok"
    /\ pc' = "loadWristTopic"
    /\ LoadFrame
    /\ UNCHANGED <<rosout, previousUpdateTime, previousDebugUpdateTime,
                   isDebuggingModeActive, debugUpdatePeriod, updatePeriod,
                   wristJoint, leftFingerJoint, rightFingerJoint, gripperManager, history,
                   updateConnection, subscribeOptions, subscribers, rosQueueThread>>

\* Lines 80-87.
InitRosNode ==
    /\ pc = "rosCheck"
    /\ IF ~rosInitialized
       THEN /\ rosout' = rosout \cup {"error: ROS must be initialized"}
            /\ pc' = "exited"
            /\ UNCHANGED rosNode
       ELSE /\ rosNode' = "ok"
            /\ pc' = "loadWristTopic"
            /\ UNCHANGED rosout
    /\ LoadFrame
    /\ UNCHANGED <<previousUpdateTime, previousDebugUpdateTime,
                   isDebuggingModeActive, debugUpdatePeriod, updatePeriod,
                   wristJoint, leftFingerJoint, rightFingerJoint, gripperManager, history,
                   updateConnection, subscribeOptions, subscribers, rosQueueThread>>

\* Lines 93-99.
LoadWristTopic ==
    /\ pc = "loadWristTopic"
    /\ LET r == loadSubscriptionTopic(sdf, "wristTopic") IN
        /\ rosout' = rosout \cup r.log
        /\ subscribeOptions' =
              IF r.exit THEN subscribeOptions
              ELSE subscribeOptions \cup
                     {[topic |-> r.topic, callback |-> "setWristAngleHandler"]}
        /\ pc' = IF r.exit THEN "exited" ELSE "loadFingerTopic"
    /\ LoadFrame
    /\ UNCHANGED <<previousUpdateTime, previousDebugUpdateTime,
                   isDebuggingModeActive, debugUpdatePeriod, updatePeriod,
                   wristJoint, leftFingerJoint, rightFingerJoint, gripperManager, history,
                   updateConnection, rosNode, subscribers, rosQueueThread>>

\* Lines 101-107.
LoadFingerTopic ==
    /\ pc = "loadFingerTopic"
    /\ LET r == loadSubscriptionTopic(sdf, "fingerTopic") IN
        /\ rosout' = rosout \cup r.log
        /\ subscribeOptions' =
              IF r.exit THEN subscribeOptions
              ELSE subscribeOptions \cup
                     {[topic |-> r.topic, callback |-> "setFingerAngleHandler"]}
        /\ pc' = IF r.exit THEN "exited" ELSE "subscribe"
    /\ LoadFrame
    /\ UNCHANGED <<previousUpdateTime, previousDebugUpdateTime,
                   isDebuggingModeActive, debugUpdatePeriod, updatePeriod,
                   wristJoint, leftFingerJoint, rightFingerJoint, gripperManager, history,
                   updateConnection, rosNode, subscribers, rosQueueThread>>

\* Lines 109-110.
Subscribe ==
    /\ pc = "subscribe"
    /\ subscribers' = subscribeOptions
    /\ pc' = "startThread"
    /\ LoadFrame
    /\ UNCHANGED <<rosout, previousUpdateTime, previousDebugUpdateTime,
                   isDebuggingModeActive, debugUpdatePeriod, updatePeriod,
                   wristJoint, leftFingerJoint, rightFingerJoint, gripperManager, history,
                   updateConnection, rosNode, subscribeOptions, rosQueueThread>>

\* Lines 118-126: the thread starts and Load returns.
StartRosQueueThread ==
    /\ pc = "startThread"
    /\ rosQueueThread' = "while"
    /\ pc' = "idle"
    /\ LoadFrame
    /\ UNCHANGED <<rosout, previousUpdateTime, previousDebugUpdateTime, loadVars,
                   gripperManager, history>>

\* --------------------------------------------- updateWorldEventHandler

\* What the handler never touches.
HandlerFrame ==
    UNCHANGED <<configVars, simTime, rosout, loadVars, targetVars, rosQueueThread>>

\* The durations of up to 8 ms whose number of seconds, computed in single
\* precision as float(nsec) * 1e-9f, is the float next below the float
\* nearest to it: 1 ms gives 0.00099999993 where 0.001f is 0.0010000000475.
\* The other durations give the nearest float also in single precision.
RoundedBelow == {1, 2, 4, 7, 8}

\* A float that holds a number of milliseconds exactly as the float nearest
\* to it; floats count half milliseconds, so that 2 * n - 1 is a float just
\* below that of n ms.
AsFloat(milliseconds) == 2 * milliseconds

\* (duration).Float(), as the builds of common::Time::Float() give it: the
\* float nearest to the duration when the product is rounded from double
\* precision, the float next below it for the durations of RoundedBelow
\* when the product is made in single precision.
Float(duration) ==
    IF duration \in RoundedBelow
    THEN {AsFloat(duration) - 1, AsFloat(duration)}
    ELSE {AsFloat(duration)}

\* Line 140 with ">" for "<": the handler returns once a period has elapsed.
ControlGateFiresInverted(currentTime, previousTime, period) ==
    { ~(elapsed > AsFloat(period)) : elapsed \in Float(currentTime - previousTime) }

\* Line 140 negated: the handler goes on when the time since the latest
\* update is not less than the update period.  The outcomes the builds give.
ControlGateFires(currentTime, previousTime, period) ==
    { ~(elapsed < AsFloat(period)) : elapsed \in Float(currentTime - previousTime) }

\* Line 177 with "<=" for ">=".
DebugGateFiresInverted(currentTime, previousTime, period) ==
    { elapsed <= AsFloat(period) : elapsed \in Float(currentTime - previousTime) }

\* Line 177: the debug branch is entered.  The outcomes the builds give.
DebugGateFires(currentTime, previousTime, period) ==
    { elapsed >= AsFloat(period) : elapsed \in Float(currentTime - previousTime) }

\* Lines 163 and 164, each with its own read of desiredFingerAngle.
LeftFingerTarget(fingerAngle) == fingerAngle \div 2

RightFingerTarget(fingerAngle) == (-fingerAngle) \div 2

\* Lines 172-174 with the wrist and left finger forces exchanged.
SetForcesExchanged(joints, forces) ==
    [ joints EXCEPT !.wrist = <<forces.leftFingerForce>>,
                    !.leftFinger = <<forces.wristForce>>,
                    !.rightFinger = <<forces.rightFingerForce>> ]

\* Lines 172-174 without line 174.
SetForcesTwoJoints(joints, forces) ==
    [ joints EXCEPT !.wrist = <<forces.wristForce>>,
                    !.leftFinger = <<forces.leftFingerForce>> ]

\* Lines 172-174: SetForce on the three joints, in this order.
SetForces(joints, forces) ==
    [ joints EXCEPT !.wrist = <<forces.wristForce>>,
                    !.leftFinger = <<forces.leftFingerForce>>,
                    !.rightFinger = <<forces.rightFingerForce>> ]

SetForceCalls == <<"wrist", "leftFinger", "rightFinger">>

\* Lines 180-201: what the debug statement prints.
DebugStatement(current, desired, forces) ==
    [ current |-> current, desired |-> desired, applied |-> forces ]

\* Lines 137-142 with line 144 moved above the test of line 140.
UpdateReturnEarlyStamped ==
    /\ pc = "idle"
    /\ updateConnection
    /\ FALSE \in ControlGateFires(simTime, previousUpdateTime, Get(updatePeriod))
    /\ previousUpdateTime' = simTime
    /\ polledAt' = <<simTime>>
    /\ polledBefore' = polledAt
    /\ gate' = "skip"
    /\ debugGate' = FALSE
    /\ snapshot' = <<>>
    /\ forceWrites' = <<>>
    /\ getForcesCalls' = 0
    /\ fingerReads' = 0
    /\ wristReads' = 0
    /\ UNCHANGED <<pc, previousDebugUpdateTime, gripperManager, history, localVars, jointForce>>
    /\ UNCHANGED <<configVars, simTime, rosout, loadVars, targetVars, rosQueueThread>>

\* Lines 137-142 when the gate is closed: the handler returns at once.
UpdateReturnEarly ==
    /\ pc = "idle"
    /\ updateConnection
    /\ FALSE \in ControlGateFires(simTime, previousUpdateTime, Get(updatePeriod))
    /\ polledAt' = <<simTime>>
    /\ polledBefore' = polledAt
    /\ gate' = "skip"
    /\ debugGate' = FALSE
    /\ snapshot' = <<>>
    /\ forceWrites' = <<>>
    /\ getForcesCalls' = 0
    /\ fingerReads' = 0
    /\ wristReads' = 0
    /\ UNCHANGED <<pc, previousUpdateTime, previousDebugUpdateTime, gripperManager, history,
                   localVars, jointForce>>
    /\ HandlerFrame

\* Lines 137-152 when the gate is open: the update time advances and the
\* joints' angles are read.
UpdateBegin ==
    /\ pc = "idle"
    /\ updateConnection
    /\ TRUE \in ControlGateFires(simTime, previousUpdateTime, Get(updatePeriod))
    /\ previousUpdateTime' = simTime
    /\ \E measured \in MeasuredStates : currentState' = measured
    /\ desiredState' = <<>>
    /\ commandForces' = <<>>
    /\ polledAt' = <<simTime>>
    /\ polledBefore' = polledAt
    /\ gate' = "fire"
    /\ debugGate' = FALSE
    /\ snapshot' = <<>>
    /\ forceWrites' = <<>>
    /\ getForcesCalls' = 0
    /\ fingerReads' = 0
    /\ wristReads' = 0
    /\ pc' = "line163"
    /\ UNCHANGED <<previousDebugUpdateTime, gripperManager, history, jointForce>>
    /\ HandlerFrame

\* Line 163.
SetDesiredLeftFinger ==
    /\ pc = "line163"
    /\ desiredState' = Assign(desiredState, "leftFingerAngle",
                              LeftFingerTarget(desiredFingerAngle))
    /\ fingerReads' = fingerReads + 1
    /\ pc' = "line164"
    /\ UNCHANGED <<previousUpdateTime, previousDebugUpdateTime, gripperManager, history,
                   currentState, commandForces, jointForce, polledAt, polledBefore,
                   gate, debugGate, snapshot, forceWrites, getForcesCalls, wristReads>>
    /\ HandlerFrame

\* Line 164.
SetDesiredRightFinger ==
    /\ pc = "line164"
    /\ desiredState' = Assign(desiredState, "rightFingerAngle",
                              RightFingerTarget(desiredFingerAngle))
    /\ fingerReads' = fingerReads + 1
    /\ pc' = "line165"
    /\ UNCHANGED <<previousUpdateTime, previousDebugUpdateTime, gripperManager, history,
                   currentState, commandForces, jointForce, polledAt, polledBefore,
                   gate, debugGate, snapshot, forceWrites, getForcesCalls, wristReads>>
    /\ HandlerFrame

\* Lines 165-203: the wrist target is read, the forces are computed and set,
\* and the debug branch is entered or not.  A debugUpdatePeriod that was
\* never assigned is read as any value.
UpdateFinish ==
    /\ pc = "line165"
    /\ LET desired == Assign(desiredState, "wristAngle", desiredWristAngle)
           result == GetForces(Get(gripperManager), desired, currentState)
       IN  /\ desiredState' = desired
           /\ wristReads' = wristReads + 1
           /\ commandForces' = result.forces
           /\ gripperManager' = <<result.manager>>
           /\ history' = RecordGetForces(history, desired, currentState)
           /\ getForcesCalls' = getForcesCalls + 1
           /\ jointForce' = SetForces(jointForce, result.forces)
           /\ forceWrites' = SetForceCalls
           /\ \E period \in (IF debugUpdatePeriod = <<>> THEN IndeterminateFloats
                             ELSE {Get(debugUpdatePeriod)}) :
              \E entered \in DebugGateFires(simTime, previousDebugUpdateTime, period) :
                IF entered
                THEN /\ previousDebugUpdateTime' = simTime
                     /\ debugGate' = TRUE
                     /\ snapshot' = IF isDebuggingModeActive
                                    THEN <<DebugStatement(currentState, desired, result.forces)>>
                                    ELSE <<>>
                ELSE /\ UNCHANGED previousDebugUpdateTime
                     /\ debugGate' = FALSE
                     /\ snapshot' = <<>>
    /\ pc' = "idle"
    /\ UNCHANGED <<previousUpdateTime, currentState, polledAt, polledBefore, gate,
                   fingerReads>>
    /\ HandlerFrame

\* ------------------------------------------------ the queue helper thread

\* What the queue helper thread and its callbacks never touch.
ThreadFrame ==
    UNCHANGED <<configVars, simTime, pc, rosout, previousUpdateTime,
                previousDebugUpdateTime, loadVars, gripperManager, history, localVars,
                jointForce, callVars>>

\* Line 239: the loop's test.
ProcessRosQueueTest ==
    /\ rosQueueThread = "while"
    /\ rosQueueThread' = IF rosNode = "ok" THEN "callAvailable" ELSE "returned"
    /\ UNCHANGED targetVars
    /\ ThreadFrame

\* Line 240 with a wait that has no timeout: callAvailable returns only
\* while the node can still deliver messages.
CallAvailableWithoutTimeout ==
    /\ rosQueueThread = "callAvailable"
    /\ rosNode = "ok"
    /\ rosQueueThread' = "while"
    /\ UNCHANGED <<desiredWristAngle, desiredFingerAngle>>
    /\ UNCHANGED <<configVars, simTime, pc, rosout, previousUpdateTime,
                   previousDebugUpdateTime, loadVars, gripperManager, history, localVars,
                   jointForce, callVars>>

\* Line 240: callAvailable returns, at the latest when its timeout expires.
CallAvailableReturn ==
    /\ rosQueueThread = "callAvailable"
    /\ rosQueueThread' = "while"
    /\ UNCHANGED targetVars
    /\ ThreadFrame

\* Lines 213-216 with an assignment to both desired angles.
SetWristAngleHandlerBothFields ==
    /\ rosQueueThread = "callAvailable"
    /\ \E s \in subscribers : s.callback = "setWristAngleHandler"
    /\ \E data \in WristMessages :
          /\ desiredWristAngle' = data
          /\ desiredFingerAngle' = data
    /\ UNCHANGED rosQueueThread
    /\ UNCHANGED <<configVars, simTime, pc, rosout, previousUpdateTime,
                   previousDebugUpdateTime, loadVars, gripperManager, history, localVars,
                   jointForce, callVars>>

\* Lines 213-216, called from callAvailable with a message of the wrist topic.
SetWristAngleHandler ==
    /\ rosQueueThread = "callAvailable"
    /\ \E s \in subscribers : s.callback = "setWristAngleHandler"
    /\ \E data \in WristMessages : desiredWristAngle' = data
    /\ UNCHANGED <<desiredFingerAngle, rosQueueThread>>
    /\ ThreadFrame

\* Lines 226-229, called from callAvailable with a message of the finger topic.
SetFingerAngleHandler ==
    /\ rosQueueThread = "callAvailable"
    /\ \E s \in subscribers : s.callback = "setFingerAngleHandler"
    /\ \E data \in FingerMessages : desiredFingerAngle' = data
    /\ UNCHANGED <<desiredWristAngle, rosQueueThread>>
    /\ ThreadFrame

\* ------------------------------------------------------ the environment

\* The node is shut down: rosNode->ok() is false from now on.
RosShutdown ==
    /\ rosNode = "ok"
    /\ pc # "exited"
    /\ rosNode' = "shutdown"
    /\ UNCHANGED <<configVars, simTime, pc, rosout, previousUpdateTime,
                   previousDebugUpdateTime, isDebuggingModeActive,
                   debugUpdatePeriod, updatePeriod, wristJoint, leftFingerJoint,
                   rightFingerJoint, updateConnection, subscribeOptions, subscribers,
                   gripperManager, history, rosQueueThread, targetVars, localVars,
                   jointForce, callVars>>

\* The physics engine advances the simulation time between two calls of the
\* handler, which it makes on the thread that advances the time.
AdvanceSimTime ==
    /\ pc = "idle"
    /\ simTime < MaxTime
    /\ simTime' = simTime + 1
    /\ UNCHANGED <<configVars, pc, rosout, previousUpdateTime,
                   previousDebugUpdateTime, loadVars, gripperManager, history,
                   rosQueueThread, targetVars, localVars, jointForce, callVars>>

Next ==
    \/ LoadBegin
    \/ LoadDebugMode
    \/ LoadUpdatePeriod
    \/ LoadWristJoint
    \/ LoadLeftFingerJoint
    \/ LoadRightFingerJoint
    \/ InitGripperManager
    \/ GripperManagerConstructor
    \/ ConnectWorldUpdateBegin
    \/ InitRosNode
    \/ LoadWristTopic
    \/ LoadFingerTopic
    \/ Subscribe
    \/ StartRosQueueThread
    \/ UpdateReturnEarly
    \/ UpdateBegin
    \/ SetDesiredLeftFinger
    \/ SetDesiredRightFinger
    \/ UpdateFinish
    \/ ProcessRosQueueTest
    \/ CallAvailableReturn
    \/ SetWristAngleHandler
    \/ SetFingerAngleHandler
    \/ RosShutdown
    \/ AdvanceSimTime

Spec == Init /\ [][Next]_vars

\* ------------------------------------------- further specifications

\* The runs of a plugin whose controllers are purely integral (Kp = 0,
\* Ki = 1.0, Kd = 0): dt is the default update period, the wrist limits
\* are out of the reach of every run and the finger limits are -5.0 and
\* 5.0.  The history keeps the load time, the getForces calls and the wrist
\* errors those calls have seen.
InitIntegral == InitWith(IntegralDocuments) /\ HistoryOfErrors

SpecIntegral == InitIntegral /\ [][Next]_vars

\* The runs of the plainly configured plugin in which the queue helper
\* thread keeps running: the operating system schedules it, so the test of
\* line 239 is eventually made, and callAvailable returns when its timeout
\* of 0.01 s expires, if not before.
InitThread == InitWith(PlainDocuments) /\ NoHistory

SpecThread ==
    /\ InitThread
    /\ [][Next]_vars
    /\ WF_vars(ProcessRosQueueTest)
    /\ WF_vars(CallAvailableReturn)

\* The runs over every update rate that keep the history of the load time
\* and the getForces calls.
InitFires == InitWith(RateDocuments) /\ HistoryFromLoad

SpecFires == InitFires /\ [][Next]_vars

\* The runs over the documents that exercise the optional elements.
InitLoad == InitWith(LoadDocuments) /\ NoHistory

SpecLoad == InitLoad /\ [][Next]_vars

\* The runs over the documents that exercise the checks of Load.
InitOrder == InitWith(OrderDocuments) /\ NoHistory

SpecOrder == InitOrder /\ [][Next]_vars

\* ============================================================ claims

\* The step is a call of updateWorldEventHandler (its first step).
HandlerCalled ==
    /\ pc = "idle"
    /\ polledAt' = <<simTime>>
    /\ polledBefore' = polledAt
    /\ gate' \in {"skip", "fire"}
    /\ <<polledAt, polledBefore, gate>>' # <<polledAt, polledBefore, gate>> \/ pc' # pc

\* The step is the last step of a call that passed the control gate.
FireFinished == pc = "line165" /\ pc' = "idle"

Joints == {"wrist", "leftFinger", "rightFinger"}

\* C1: a call of the handler at time simTime goes on to the control
\* computation if and only if simTime - previousUpdateTime >= updatePeriod;
\* when it does, it sets previousUpdateTime to simTime and calls getForces
\* once; when it does not, it calls getForces not at all.
C1_ControlGate ==
    [][ /\ (HandlerCalled /\ gate' = "fire") =>
              /\ simTime - previousUpdateTime >= Get(updatePeriod)
              /\ previousUpdateTime' = simTime
              /\ pc' = "line163"
        /\ (HandlerCalled /\ gate' = "skip") =>
              /\ simTime - previousUpdateTime < Get(updatePeriod)
              /\ previousUpdateTime' = previousUpdateTime
              /\ pc' = "idle"
              /\ getForcesCalls' = 0
        /\ (pc = "idle" /\ pc' = "line163") => HandlerCalled /\ gate' = "fire"
        /\ FireFinished => getForcesCalls' = 1
      ]_vars

\* C2: a call of the handler that the control gate turns away changes
\* neither previousUpdateTime nor previousDebugUpdateTime, nor the PID
\* controllers, nor the forces on the joints, and sets no force.
C2_ClosedGateChangesNothing ==
    [][ (pc = "idle" /\ pc' = "idle" /\ polledAt' = <<simTime>> /\ gate' = "skip") =>
            /\ UNCHANGED <<previousUpdateTime, previousDebugUpdateTime,
                           gripperManager, jointForce>>
            /\ forceWrites' = <<>>
            /\ getForcesCalls' = 0
      ]_vars

\* C2 witness: a call returned early at a time later than the latest fire,
\* whose forces are still on the joints.
C2_Witness ==
    /\ pc = "idle"
    /\ gate = "skip"
    /\ polledAt = <<simTime>>
    /\ previousUpdateTime < simTime
    /\ jointForce.wrist # <<>>
    /\ Get(gripperManager).wrist.integral # 0

\* C3: whenever both finger targets of a fire are set, they are the halves
\* of one opening: desired left + desired right = 0.
C3_FingerMirroring ==
    (pc = "line165" \/ (pc = "idle" /\ gate = "fire")) =>
        desiredState.leftFingerAngle + desiredState.rightFingerAngle = 0

\* C4: a fire reads desiredFingerAngle once and desiredWristAngle once.
C4_OneReadPerFire ==
    (pc = "idle" /\ gate = "fire") => (fingerReads = 1 /\ wristReads = 1)

\* C5: every force set on a joint lies within the force limits of that
\* joint's PID settings (the wrist's for the wrist, the fingers' for both
\* fingers), the settings being usable.
C5_ForcesWithinLimits ==
    \A j \in Joints :
        (gripperManager # <<>> /\ jointForce[j] # <<>>) =>
            LET settings == Get(gripperManager)[j].settings IN
                SettingsValid(settings) =>
                    /\ settings.min <= Get(jointForce[j])
                    /\ Get(jointForce[j]) <= settings.max

\* C5 witness: a fire has set the wrist force to the wrist's upper limit and
\* the left finger force to the fingers' lower limit.
C5_Witness ==
    /\ pc = "idle"
    /\ gate = "fire"
    /\ jointForce.wrist = <<Get(gripperManager).wrist.settings.max>>
    /\ jointForce.leftFinger = <<Get(gripperManager).leftFinger.settings.min>>
    /\ Get(gripperManager).wrist.settings.max < Get(gripperManager).leftFinger.settings.max

\* The handler is called for the first time since simTime - gap or earlier.
CalledAfterGap(gap) ==
    /\ HandlerCalled
    /\ polledAt # <<>>
    /\ simTime - Get(polledAt) >= gap

\* C6 as claimed: a call that comes two or more periods of a gate after the
\* call before it fires that gate once and sets the gate's time to simTime,
\* for the control gate and for the debug gate alike; a call at the time
\* of a fire does not fire again.
C6_NoCatchUpEitherGate ==
    [][ /\ CalledAfterGap(2 * Get(updatePeriod)) =>
              /\ gate' = "fire"
              /\ previousUpdateTime' = simTime
        /\ (debugUpdatePeriod # <<>> /\ CalledAfterGap(2 * Get(debugUpdatePeriod))) =>
              gate' = "fire"
        /\ (FireFinished /\ debugUpdatePeriod # <<>>
              /\ polledBefore # <<>>
              /\ simTime - Get(polledBefore) >= 2 * Get(debugUpdatePeriod)) =>
              /\ debugGate'
              /\ previousDebugUpdateTime' = simTime
        /\ (HandlerCalled /\ polledAt = <<simTime>> /\ gate = "fire") => gate' = "skip"
      ]_vars

\* C6 as amended: a call that comes two or more update periods after the
\* call before it fires the control gate once and sets previousUpdateTime to
\* simTime; a call at the time of a fire does not fire again; the debug gate
\* is tested only inside a fire of the control gate, where a debug period
\* that was assigned and has elapsed twice since the call before makes it
\* fire, and whenever it fires it sets previousDebugUpdateTime to simTime.
C6_NoCatchUp ==
    [][ /\ CalledAfterGap(2 * Get(updatePeriod)) =>
              /\ gate' = "fire"
              /\ pc' = "line163"
              /\ previousUpdateTime' = simTime
        /\ (HandlerCalled /\ polledAt = <<simTime>> /\ gate = "fire") =>
              /\ gate' = "skip"
              /\ previousUpdateTime' = previousUpdateTime
        /\ (FireFinished /\ debugUpdatePeriod # <<>>
              /\ polledBefore # <<>>
              /\ simTime - Get(polledBefore) >= 2 * Get(debugUpdatePeriod)) =>
              /\ debugGate'
              /\ previousDebugUpdateTime' = simTime
        /\ (pc # "Load" /\ previousDebugUpdateTime' # previousDebugUpdateTime) =>
              /\ FireFinished
              /\ previousDebugUpdateTime' = simTime
      ]_vars

\* C6 witness: a fire is under way in a call that came two update periods or
\* more after the call before it, which is later than the fire before it.
C6_Witness ==
    /\ pc = "line163"
    /\ polledBefore # <<>>
    /\ simTime - Get(polledBefore) >= 2 * Get(updatePeriod)
    /\ previousUpdateTime = simTime
    /\ jointForce.wrist # <<>>

\* C7 as claimed: every call of the handler at which the debug period has
\* elapsed since previousDebugUpdateTime fires the debug gate and sets
\* previousDebugUpdateTime to simTime, whether the control gate fires or not.
C7_DebugGateIndependent ==
    [][ /\ (HandlerCalled /\ gate' = "skip" /\ debugUpdatePeriod # <<>>
              /\ simTime - previousDebugUpdateTime >= Get(debugUpdatePeriod)) =>
              /\ debugGate'
              /\ previousDebugUpdateTime' = simTime
        /\ (FireFinished /\ debugUpdatePeriod # <<>>
              /\ simTime - previousDebugUpdateTime >= Get(debugUpdatePeriod)) =>
              /\ debugGate'
              /\ previousDebugUpdateTime' = simTime
      ]_vars

\* C7 as amended: the debug gate is tested at the end of a fire of the
\* control gate and nowhere else.  There, with a debug period that was
\* assigned, it fires when more than debugUpdatePeriod has elapsed since
\* previousDebugUpdateTime and does not fire when less has; when exactly
\* debugUpdatePeriod has elapsed, the rounding of the elapsed time decides.
\* A fire sets previousDebugUpdateTime to simTime and prints the current,
\* desired and applied values if and only if debugging is active.  No
\* other step of the handler changes previousDebugUpdateTime: a call that
\* the control gate turns away leaves it as it is however long ago the
\* debug gate fired.
C7_DebugGateInsideControlGate ==
    [][ /\ (FireFinished /\ debugUpdatePeriod # <<>>) =>
              /\ simTime - previousDebugUpdateTime > Get(debugUpdatePeriod) => debugGate'
              /\ simTime - previousDebugUpdateTime < Get(debugUpdatePeriod) => ~debugGate'
              /\ IF debugGate'
                 THEN /\ previousDebugUpdateTime' = simTime
                      /\ snapshot' =
                           IF isDebuggingModeActive
                           THEN << [current |-> currentState,
                                    desired |-> desiredState',
                                    applied |-> commandForces'] >>
                           ELSE <<>>
                 ELSE /\ previousDebugUpdateTime' = previousDebugUpdateTime
                      /\ snapshot' = <<>>
        /\ (pc \notin {"Load", "line165"}) =>
              previousDebugUpdateTime' = previousDebugUpdateTime
        /\ (HandlerCalled /\ gate' = "skip") => (~debugGate' /\ snapshot' = <<>>)
      ]_vars

\* C7 witness: a call after which the debug period has elapsed since the
\* debug gate last fired was turned away by the control gate, and the debug
\* gate, which fired in an earlier call, did not fire.
C7_Witness ==
    /\ pc = "idle"
    /\ gate = "skip"
    /\ polledAt = <<simTime>>
    /\ isDebuggingModeActive
    /\ simTime - previousDebugUpdateTime >= Get(debugUpdatePeriod)
    /\ previousDebugUpdateTime = previousUpdateTime
    /\ jointForce.wrist # <<>>

\* C8: the last step of every fire calls getForces once, with the desired
\* state of the fire and the joint angles read in it, and sets the wrist
\* force on the wrist joint, the left finger force on the left finger joint
\* and the right finger force on the right finger joint; no other step sets
\* a force.
C8_ThreeForcesPerFire ==
    [][ /\ FireFinished =>
              LET result == GetForces(Get(gripperManager), desiredState', currentState) IN
                  /\ getForcesCalls' = 1
                  /\ commandForces' = result.forces
                  /\ gripperManager' = <<result.manager>>
                  /\ forceWrites' = <<"wrist", "leftFinger", "rightFinger">>
                  /\ jointForce'.wrist = <<result.forces.wristForce>>
                  /\ jointForce'.leftFinger = <<result.forces.leftFingerForce>>
                  /\ jointForce'.rightFinger = <<result.forces.rightFingerForce>>
                  /\ currentState' = currentState
        /\ ~FireFinished => jointForce' = jointForce
        /\ (pc = "idle" /\ pc' = "line163") => currentState' \in MeasuredStates
      ]_vars

\* C8 witness: a fire that is not the first has set three different forces
\* (the wrist controller's integral holds more than this fire's error).
C8_Witness ==
    /\ pc = "idle"
    /\ gate = "fire"
    /\ forceWrites = <<"wrist", "leftFinger", "rightFinger">>
    /\ jointForce.wrist # jointForce.leftFinger
    /\ jointForce.leftFinger # jointForce.rightFinger
    /\ jointForce.wrist # jointForce.rightFinger
    /\ Get(gripperManager).wrist.integral
         # (desiredState.wristAngle - currentState.wristAngle) * Get(updatePeriod)

\* The positions of the physics thread before loadUpdatePeriod returns.
BeforeUpdatePeriod == {"Load", "loadDebugMode", "loadUpdatePeriod"}

\* The positions of the physics thread before the third loadJoint returns.
BeforeJoints ==
    BeforeUpdatePeriod \cup {"loadWristJoint", "loadLeftFingerJoint", "loadRightFingerJoint"}

\* C9: without an updateRate element the update period is that of 1000 Hz
\* and Load goes on; with an updateRate <= 0 the process exits, the update
\* period is never assigned and the error is reported; otherwise the update
\* period is 1/updateRate.  Past loadUpdatePeriod the update period is
\* positive.
C9_LoadUpdatePeriod ==
    /\ (pc \notin BeforeUpdatePeriod /\ updatePeriod # <<>>) =>
          /\ Get(updatePeriod) > 0
          /\ IF HasElement(sdf.updateRate)
             THEN /\ Get(sdf.updateRate) > 0
                  /\ Get(updatePeriod) * Get(sdf.updateRate) = TimeScale
             ELSE /\ Get(updatePeriod) * 1000 = TimeScale
                  /\ "info: missing <updateRate>, defaulting to 1000.0" \in rosout
    /\ (pc \notin BeforeUpdatePeriod \cup {"exited"}) => updatePeriod # <<>>
    /\ (HasElement(sdf.updateRate) /\ Get(sdf.updateRate) <= 0) =>
          /\ updatePeriod = <<>>
          /\ pc \in BeforeUpdatePeriod \cup {"exited"}
          /\ (pc = "exited" /\ "error: printDelayInSeconds cannot be <= 0.0" \notin rosout) =>
                "error: updateRate cannot be <= 0.0" \in rosout
    /\ "error: updateRate cannot be <= 0.0" \in rosout =>
          /\ pc = "exited"
          /\ HasElement(sdf.updateRate)
          /\ Get(sdf.updateRate) <= 0

\* C9 witness: Load has returned with the default rate's period of 1 ms.
C9_Witness ==
    /\ pc = "idle"
    /\ sdf.updateRate = Missing
    /\ updatePeriod = <<1>>

\* The joint element a joint tag names is present and names a joint of the model.
Resolves(jointTag) ==
    HasElement(sdf[jointTag]) /\ Get(sdf[jointTag]) \in ModelJoints

\* C10: past the three calls of loadJoint every joint is the joint of the
\* model that its element names; a joint element that is missing or names
\* no joint of the model keeps Load from going past its loadJoint, leaves its
\* joint null and, when Load gets to it, ends the process with an error that
\* names the tag or the joint.
C10_LoadJoint ==
    /\ (pc \notin BeforeJoints \cup {"exited"}) =>
          /\ Resolves("wristJoint") /\ wristJoint = Get(sdf.wristJoint)
          /\ Resolves("leftFingerJoint") /\ leftFingerJoint = Get(sdf.leftFingerJoint)
          /\ Resolves("rightFingerJoint") /\ rightFingerJoint = Get(sdf.rightFingerJoint)
    /\ ~Resolves("wristJoint") =>
          /\ wristJoint = "null"
          /\ pc \in BeforeUpdatePeriod \cup {"loadWristJoint", "exited"}
          /\ (pc = "exited" /\ updatePeriod # <<>>) =>
                IF HasElement(sdf.wristJoint)
                THEN "error: No no_such_joint joint is defined" \in rosout
                ELSE "error: No <wristJoint> tag is defined" \in rosout
    /\ ~Resolves("leftFingerJoint") =>
          /\ leftFingerJoint = "null"
          /\ pc \in BeforeUpdatePeriod \cup {"loadWristJoint", "loadLeftFingerJoint", "exited"}
          /\ (pc = "exited" /\ wristJoint # "null") =>
                IF HasElement(sdf.leftFingerJoint)
                THEN "error: No no_such_joint joint is defined" \in rosout
                ELSE "error: No <leftFingerJoint> tag is defined" \in rosout
    /\ ~Resolves("rightFingerJoint") =>
          /\ rightFingerJoint = "null"
          /\ pc \in BeforeJoints \cup {"exited"}
          /\ (pc = "exited" /\ leftFingerJoint # "null") =>
                IF HasElement(sdf.rightFingerJoint)
                THEN "error: No no_such_joint joint is defined" \in rosout
                ELSE "error: No <rightFingerJoint> tag is defined" \in rosout
    /\ (wristJoint # "null" \/ leftFingerJoint # "null" \/ rightFingerJoint # "null") =>
          {wristJoint, leftFingerJoint, rightFingerJoint} \subseteq ModelJoints \cup {"null"}

\* C10 witness: the process has exited in the second loadJoint, whose
\* element names a joint the model lacks, after the first returned the wrist.
C10_Witness ==
    /\ pc = "exited"
    /\ wristJoint = "gripper_wrist_joint"
    /\ sdf.leftFingerJoint = Element("no_such_joint")
    /\ leftFingerJoint = "null"
    /\ "error: No no_such_joint joint is defined" \in rosout

\* The positions of the physics thread before Load has loaded both topics.
BeforeSubscribe ==
    BeforeJoints \cup {"initGripperManager", "GripperManager", "connectUpdate", "rosCheck",
                       "loadWristTopic", "loadFingerTopic"}

\* C11: when the wristTopic or the fingerTopic element is missing, Load
\* never gets to subscribe: no subscription exists, the queue helper thread
\* is never started, and the loadSubscriptionTopic that finds its element
\* missing ends the process with an error naming the tag.  When Load has
\* subscribed, the wrist handler is subscribed to the wrist topic and the
\* finger handler to the finger topic, and nothing else is.
C11_LoadSubscriptionTopic ==
    /\ (sdf.wristTopic = Missing \/ sdf.fingerTopic = Missing) =>
          /\ subscribers = {}
          /\ rosQueueThread = "unstarted"
          /\ pc \in BeforeSubscribe \cup {"exited"}
    /\ sdf.wristTopic = Missing =>
          /\ subscribeOptions = {}
          /\ pc # "loadFingerTopic"
          /\ (pc = "exited" /\ rosNode # "null") =>
                "error: No <wristTopic> tag is defined" \in rosout
    /\ (sdf.wristTopic # Missing /\ sdf.fingerTopic = Missing) =>
          ((pc = "exited" /\ rosNode # "null") =>
                "error: No <fingerTopic> tag is defined" \in rosout)
    /\ (sdf.wristTopic # Missing /\ sdf.fingerTopic # Missing) =>
          /\ ~(pc = "exited" /\ rosNode # "null")
          /\ (pc \notin BeforeSubscribe \cup {"subscribe", "exited"}) =>
                subscribers =
                  { [topic |-> Get(sdf.wristTopic), callback |-> "setWristAngleHandler"],
                    [topic |-> Get(sdf.fingerTopic), callback |-> "setFingerAngleHandler"] }
    /\ rosQueueThread # "unstarted" => Cardinality(subscribers) = 2

\* C11 witness: the wrist topic was loaded and the finger topic is missing;
\* the process has exited with no subscription and no thread.
C11_Witness ==
    /\ pc = "exited"
    /\ sdf.fingerTopic = Missing
    /\ Cardinality(subscribeOptions) = 1
    /\ subscribers = {}
    /\ rosQueueThread = "unstarted"
    /\ "error: No <fingerTopic> tag is defined" \in rosout

\* The positions of the physics thread before the manager is initialised.
BeforeManager == BeforeJoints \cup {"initGripperManager", "GripperManager"}

\* The gains and the limits a group's elements ask for: the element's value,
\* or (2.5, 0.0, 0.0) and (-10.0, 10.0) in tenths when it is missing.
AskedPID(group) ==
    IF HasElement(sdf[group \o "PID"]) THEN Get(sdf[group \o "PID"]) ELSE <<25, 0, 0>>

AskedLimits(group) ==
    IF HasElement(sdf[group \o "ForceLimits"]) THEN Get(sdf[group \o "ForceLimits"])
    ELSE <<-100, 100>>

\* The settings of a controller are those asked for a group.
SettingsAsAsked(settings, group) ==
    /\ <<settings.Kp, settings.Ki, settings.Kd>> = AskedPID(group)
    /\ <<settings.min, settings.max>> = AskedLimits(group)

\* Load has been through the initialisation of the manager.
ManagerStepDone ==
    \/ pc \notin BeforeManager \cup {"exited"}
    \/ pc = "exited" /\ rightFingerJoint # "null"

\* C12: the settings Load hands to the manager hold, per group and per
\* element, the element's value when it is present and the default when it
\* is missing, whatever the other three elements are; a missing element is
\* reported by its own info diagnostic and never ends the process: Load
\* goes past the initialisation of the manager unless configured limits
\* are inverted.
C12_LoadPIDSettingsDefaults ==
    /\ gripperManager # <<>> =>
          /\ SettingsAsAsked(Get(gripperManager).wrist.settings, "wrist")
          /\ SettingsAsAsked(Get(gripperManager).leftFinger.settings, "finger")
          /\ SettingsAsAsked(Get(gripperManager).rightFinger.settings, "finger")
    /\ (pc \notin BeforeManager \cup {"exited"}) => gripperManager # <<>>
    /\ ManagerStepDone =>
          /\ \A group \in {"wrist", "finger"} :
                /\ sdf[group \o "PID"] = Missing <=>
                      ("info: missing <" \o group \o "PID>, defaulting to P=2.5, I=0.0, D=0.0")
                         \in rosout
                /\ sdf[group \o "ForceLimits"] = Missing <=>
                      ("info: missing <" \o group \o "ForceLimits>, defaulting to -10.0, 10.0")
                         \in rosout
          /\ gripperManager = <<>> =>
                \E group \in {"wrist", "finger"} :
                    /\ HasElement(sdf[group \o "ForceLimits"])
                    /\ AskedLimits(group)[1] > AskedLimits(group)[2]

\* C12 witness: a Load that returned with the wrist gains configured and
\* the wrist limits defaulted, the finger gains defaulted and the finger
\* limits configured.
C12_Witness ==
    /\ pc = "idle"
    /\ sdf.wristPID = Element(<<10, 10, 10>>)
    /\ sdf.wristForceLimits = Missing
    /\ sdf.fingerPID = Missing
    /\ sdf.fingerForceLimits = Element(<<-50, 50>>)
    /\ Get(gripperManager).wrist.settings.Kp = 10
    /\ Get(gripperManager).wrist.settings.max = 100
    /\ Get(gripperManager).leftFinger.settings.Kp = 25
    /\ Get(gripperManager).rightFinger.settings.max = 50

\* The limits asked for a group are inverted: min > max.
LimitsInverted(group) == AskedLimits(group)[1] > AskedLimits(group)[2]

\* C13: when the wrist or the finger settings are unusable, Load ends the
\* process at the construction of the manager, before the update handler
\* is connected: no manager exists, the handler is never connected and
\* never called.  A manager that exists has dt > 0 and min <= max in the
\* settings of its three controllers, and the handler is connected only
\* once the manager exists.
C13_InvalidSettingsFailFast ==
    /\ (LimitsInverted("wrist") \/ LimitsInverted("finger")) =>
          /\ gripperManager = <<>>
          /\ ~updateConnection
          /\ pc \in BeforeManager \cup {"exited"}
          /\ gate = "none"
          /\ polledAt = <<>>
          /\ ManagerStepDone =>
                /\ pc = "exited"
                /\ "error: invalid PIDSettings" \in rosout
    /\ gripperManager # <<>> =>
          \A c \in {"wrist", "leftFinger", "rightFinger"} :
              /\ Get(gripperManager)[c].settings.dt > 0
              /\ Get(gripperManager)[c].settings.min <= Get(gripperManager)[c].settings.max
    /\ updateConnection => gripperManager # <<>>
    /\ "error: invalid PIDSettings" \in rosout =>
          /\ pc = "exited"
          /\ LimitsInverted("wrist") \/ LimitsInverted("finger")

\* C13 witness: the wrist limits are the defaults and the finger limits are
\* configured with min > max; the process has exited at the construction of
\* the manager.
C13_Witness ==
    /\ pc = "exited"
    /\ sdf.wristForceLimits = Missing
    /\ sdf.fingerForceLimits = Element(<<50, -50>>)
    /\ rightFingerJoint # "null"
    /\ gripperManager = <<>>
    /\ ~updateConnection
    /\ "error: invalid PIDSettings" \in rosout

\* The document asks for debugging: its debug element holds a
\* printToConsole element whose value is "true".
DebugAsked ==
    /\ HasElement(sdf.debug)
    /\ Get(sdf.debug).printToConsole = Element("true")

\* The printToConsole element of the document, Missing without a debug element.
PrintToConsole ==
    IF HasElement(sdf.debug) THEN Get(sdf.debug).printToConsole ELSE Missing

\* The printDelayInSeconds element of the document, Missing without a debug element.
PrintDelay ==
    IF HasElement(sdf.debug) THEN Get(sdf.debug).printDelayInSeconds ELSE Missing

\* Load has been through loadDebugMode.
DebugModeLoaded == pc \notin {"Load", "loadDebugMode"}

\* C14: once loadDebugMode has run, debugging is active if and only if the
\* debug element holds a printToConsole element with the value "true".
\* Without a debug element, without a printToConsole element, with the
\* value "false" and with any other value, debugging is off and Load goes on
\* to loadUpdatePeriod; the invalid-value diagnostic is there if and only
\* if the value is present and neither "true" nor "false".
C14_PrintToConsole ==
    /\ ~DebugModeLoaded => ~isDebuggingModeActive
    /\ DebugModeLoaded =>
          /\ isDebuggingModeActive <=> DebugAsked
          /\ ("info: invalid value in <printToConsole>, defaulting to false" \in rosout)
                <=> (HasElement(PrintToConsole) /\ Get(PrintToConsole) \notin {"true", "false"})
          /\ ("info: missing <debug>, defaulting to false" \in rosout)
                <=> ~HasElement(sdf.debug)
          /\ ("info: missing <printToConsole>, defaulting to false" \in rosout)
                <=> (HasElement(sdf.debug) /\ ~HasElement(PrintToConsole))
          /\ ~DebugAsked =>
                /\ pc = "exited" => updatePeriod # <<>>
                /\ "error: printDelayInSeconds cannot be <= 0.0" \notin rosout

\* C14 witness: Load has returned with the unrecognized value "yes":
\* debugging is off and the value was reported.
C14_Witness ==
    /\ pc = "idle"
    /\ PrintToConsole = Element("yes")
    /\ ~isDebuggingModeActive
    /\ "info: invalid value in <printToConsole>, defaulting to false" \in rosout

\* C15: with debugging asked for, a missing printDelayInSeconds gives a
\* debug period of 3.0 s, a value <= 0 ends the process in loadDebugMode,
\* and any other value is the debug period.  With debugging not asked for,
\* the element is not looked at: the debug period is never assigned, a
\* value <= 0 does not end the process, and no call of the update handler
\* prints the debug statement, whether or not it enters the debug branch.
C15_PrintDelayInSeconds ==
    /\ (DebugModeLoaded /\ DebugAsked) =>
          /\ ~HasElement(PrintDelay) =>
                /\ debugUpdatePeriod = <<3000>>
                /\ "info: missing <printDelayInSeconds>, defaulting to 3.0 seconds" \in rosout
                /\ pc = "exited" => updatePeriod # <<>>
          /\ (HasElement(PrintDelay) /\ Get(PrintDelay) <= 0) =>
                /\ pc = "exited"
                /\ updatePeriod = <<>>
                /\ "error: printDelayInSeconds cannot be <= 0.0" \in rosout
          /\ (HasElement(PrintDelay) /\ Get(PrintDelay) > 0) =>
                /\ debugUpdatePeriod = PrintDelay
                /\ pc = "exited" => updatePeriod # <<>>
    /\ ~DebugAsked =>
          /\ debugUpdatePeriod = <<>>
          /\ "error: printDelayInSeconds cannot be <= 0.0" \notin rosout
          /\ "info: missing <printDelayInSeconds>, defaulting to 3.0 seconds" \notin rosout
          /\ pc = "exited" => updatePeriod # <<>>
    /\ ~isDebuggingModeActive => snapshot = <<>>

\* C15 witness: printToConsole is "false" and printDelayInSeconds is 0; Load
\* has returned, and a call of the handler has entered the debug branch and
\* printed nothing.
C15_Witness ==
    /\ pc = "idle"
    /\ PrintToConsole = Element("false")
    /\ PrintDelay = Element(0)
    /\ gate = "fire"
    /\ debugGate
    /\ snapshot = <<>>

\* What a compute call adds to the integral of the controller of a joint
\* angle: the error of that call times dt.
Accumulated(angle) == (desiredState'[angle] - currentState[angle]) * Get(updatePeriod)

\* C16: every getForces call adds error * dt to the integral of each of the
\* three controllers exactly once, also when the controller's output is
\* clamped, and the integrals change at no other step; they start at zero.
\* With Kp = 0, Ki = 1.0 and Kd = 0 the call returns the integral, clamped
\* for the fingers and as it is for the wrist, whose limits are out of
\* reach: after n calls that all saw the wrist error e, the wrist integral
\* is e * dt * n and the n-th call has returned that.
C16_IntegralAccumulation ==
    /\ [][ IF pc' = "idle" /\ pc = "line165"
           THEN /\ Get(gripperManager').wrist.integral =
                      Get(gripperManager).wrist.integral + Accumulated("wristAngle")
                /\ Get(gripperManager').leftFinger.integral =
                      Get(gripperManager).leftFinger.integral
                         + Accumulated("leftFingerAngle")
                /\ Get(gripperManager').rightFinger.integral =
                      Get(gripperManager).rightFinger.integral
                         + Accumulated("rightFingerAngle")
                /\ commandForces'.wristForce = 10 * Get(gripperManager').wrist.integral
                /\ commandForces'.leftFingerForce =
                      Clamp(10 * Get(gripperManager').leftFinger.integral, -50, 50)
                /\ commandForces'.rightFingerForce =
                      Clamp(10 * Get(gripperManager').rightFinger.integral, -50, 50)
           ELSE gripperManager # <<>> => gripperManager' = gripperManager
         ]_vars
    /\ [](gripperManager # <<>> =>
            /\ Get(history).fires = 0 =>
                  \A c \in {"wrist", "leftFinger", "rightFinger"} :
                      Get(gripperManager)[c].integral = 0
            /\ \A e \in Get(history).wristErrors :
                  Get(history).wristErrors = {e} =>
                     /\ Get(gripperManager).wrist.integral =
                           e * Get(updatePeriod) * Get(history).fires
                     /\ commandForces # <<>> =>
                           commandForces.wristForce =
                              10 * e * Get(updatePeriod) * Get(history).fires)

\* C16 witness: the fourth call with a wrist error of 8 has returned 32.0;
\* the left finger's output is clamped at -5.0 and its integral has grown
\* on behind the clamp.
C16_Witness ==
    /\ pc = "idle"
    /\ Get(history).fires = 4
    /\ Get(history).wristErrors = {8}
    /\ updatePeriod = <<1>>
    /\ commandForces.wristForce = 320
    /\ commandForces.leftFingerForce = -50
    /\ Get(gripperManager).leftFinger.integral < -8

\* C17: processRosQueue has returned only if the node has been shut down;
\* its test of line 239 goes on to callAvailable while the node is ok and
\* returns otherwise, and callAvailable always leads back to the test; once
\* the node is shut down with the thread running, the thread eventually
\* returns.
C17_QueueThreadLifetime ==
    /\ [](rosQueueThread = "returned" => rosNode = "shutdown")
    /\ [][ /\ (rosQueueThread = "while" /\ rosQueueThread' # "while") =>
                 rosQueueThread' = IF rosNode = "ok" THEN "callAvailable" ELSE "returned"
           /\ (rosQueueThread = "callAvailable" /\ rosQueueThread' # "callAvailable") =>
                 rosQueueThread' = "while"
           /\ rosQueueThread = "returned" => rosQueueThread' = "returned"
         ]_vars
    /\ (rosNode = "shutdown" /\ rosQueueThread \in {"while", "callAvailable"})
          ~> (rosQueueThread = "returned")

\* C17 witness: the thread has delivered a wrist message and has returned
\* after the node was shut down.
C17_Witness ==
    /\ rosQueueThread = "returned"
    /\ rosNode = "shutdown"
    /\ desiredWristAngle # 0

\* What neither message handler touches.
OutsideHandlers ==
    <<sdf, rosInitialized, simTime, pc, rosout, previousUpdateTime,
      previousDebugUpdateTime, isDebuggingModeActive, debugUpdatePeriod,
      updatePeriod, wristJoint, leftFingerJoint, rightFingerJoint,
      gripperManager, updateConnection, rosNode, subscribeOptions, subscribers,
      rosQueueThread, currentState, desiredState, commandForces, jointForce,
      polledAt, polledBefore, gate, debugGate, snapshot, forceWrites,
      getForcesCalls, fingerReads, wristReads>>

\* C18: a step that changes desiredWristAngle is a delivery of a wrist
\* message by the queue helper thread inside callAvailable: the field takes
\* the message's value, and desiredFingerAngle, the update times, the
\* controllers, the forces on the joints and everything else stay as they
\* were; likewise for desiredFingerAngle and a finger message.  No handler
\* step makes a getForces call or moves the physics thread.
C18_HandlersOverwriteOwnField ==
    [][ /\ desiredWristAngle' # desiredWristAngle =>
              /\ rosQueueThread = "callAvailable"
              /\ \E s \in subscribers :
                    s = [topic |-> Get(sdf.wristTopic), callback |-> "setWristAngleHandler"]
              /\ desiredWristAngle' \in WristMessages
              /\ desiredFingerAngle' = desiredFingerAngle
              /\ OutsideHandlers' = OutsideHandlers
        /\ desiredFingerAngle' # desiredFingerAngle =>
              /\ rosQueueThread = "callAvailable"
              /\ \E s \in subscribers :
                    s = [topic |-> Get(sdf.fingerTopic), callback |-> "setFingerAngleHandler"]
              /\ desiredFingerAngle' \in FingerMessages
              /\ desiredWristAngle' = desiredWristAngle
              /\ OutsideHandlers' = OutsideHandlers
      ]_vars

\* C18 witness: after a fire that set forces, a wrist message and a finger
\* message have been delivered; the fields hold the values delivered last
\* and the forces on the joints are those of the fire.
C18_Witness ==
    /\ pc = "idle"
    /\ gate = "skip"
    /\ jointForce.wrist # <<>>
    /\ desiredState.wristAngle = 0
    /\ desiredState.leftFingerAngle = 0
    /\ desiredWristAngle = 8
    /\ desiredFingerAngle = -8

\* The controllers of the manager.
Controllers == {"wrist", "leftFinger", "rightFinger"}

\* The angle of the desired and the current state that a controller works on.
AngleOf(controller) ==
    [wrist |-> "wristAngle", leftFinger |-> "leftFingerAngle",
     rightFinger |-> "rightFingerAngle"][controller]

\* C19: once the manager exists, the dt of each of its three controllers is
\* the update period, which is 1/updateRate (1/1000 s without an updateRate
\* element) and positive; from then on neither the update period nor any
\* controller's settings change, and every fire, however long after the
\* fire before it, adds error * updatePeriod to each controller's integral.
C19_FixedTimeStep ==
    /\ [](gripperManager # <<>> =>
            /\ updatePeriod # <<>>
            /\ Get(updatePeriod) > 0
            /\ Get(updatePeriod) *
                  (IF HasElement(sdf.updateRate) THEN Get(sdf.updateRate) ELSE 1000) = 1000
            /\ \A c \in Controllers :
                  Get(gripperManager)[c].settings.dt = Get(updatePeriod))
    /\ [][ gripperManager # <<>> =>
              /\ gripperManager' # <<>>
              /\ updatePeriod' = updatePeriod
              /\ \A c \in Controllers :
                    /\ Get(gripperManager')[c].settings = Get(gripperManager)[c].settings
                    /\ Get(gripperManager')[c].integral =
                          IF FireFinished
                          THEN Get(gripperManager)[c].integral
                                 + (desiredState'[AngleOf(c)] - currentState[AngleOf(c)])
                                     * Get(updatePeriod)
                          ELSE Get(gripperManager)[c].integral
         ]_vars

\* C19 witness: with a period of 1 ms, a fire at 4 ms that follows a call at
\* 1 ms, three periods late, has left dt at 1 ms and a non-zero integral.
C19_Witness ==
    /\ pc = "idle"
    /\ gate = "fire"
    /\ updatePeriod = <<1>>
    /\ polledAt = <<4>>
    /\ polledBefore = <<1>>
    /\ Get(gripperManager).wrist.settings.dt = 1
    /\ Get(gripperManager).wrist.integral # 0

\* C20: previousUpdateTime never decreases and never exceeds the simulation
\* time; a fire comes at least one update period after the fire before it,
\* and the first fire at least one update period after the load time, which
\* is what previousUpdateTime holds until then; so at every moment the
\* getForces calls made since Load, times the update period, are no more
\* than the time since Load.
C20_MinimumSpacing ==
    /\ [](/\ previousUpdateTime <= simTime
          /\ history # <<>>
          /\ Get(history).loadTime <= simTime
          /\ (pc \notin {"Load", "line163", "line164", "line165"}
                /\ Get(history).fires = 0) =>
                /\ previousUpdateTime = Get(history).loadTime
                /\ previousDebugUpdateTime = Get(history).loadTime
          /\ updatePeriod = <<>> => Get(history).fires = 0
          /\ updatePeriod # <<>> =>
                /\ Get(history).fires * Get(updatePeriod)
                      <= previousUpdateTime - Get(history).loadTime
                /\ Get(history).fires * Get(updatePeriod)
                      <= simTime - Get(history).loadTime)
    /\ [][ /\ previousUpdateTime' >= previousUpdateTime
           /\ (HandlerCalled /\ gate' = "fire") =>
                 /\ previousUpdateTime' = simTime
                 /\ previousUpdateTime' - previousUpdateTime >= Get(updatePeriod)
                 /\ simTime >= Get(history).loadTime
                                 + (Get(history).fires + 1) * Get(updatePeriod)
           /\ Get(history').fires # Get(history).fires =>
                 /\ FireFinished
                 /\ Get(history').fires = Get(history).fires + 1
           /\ FireFinished => Get(history').fires = Get(history).fires + 1
         ]_vars

\* C20 witness: Load at 1 ms and a period of 1 ms; the third fire has
\* finished at 4 ms, as many fires as periods have elapsed since Load.
C20_Witness ==
    /\ pc = "idle"
    /\ history = <<[loadTime |-> 1, fires |-> 3]>>
    /\ updatePeriod = <<1>>
    /\ simTime = 4
    /\ previousUpdateTime = 4

\* The positions of the physics thread in Load, in the order of lines 20-119,
\* and the position it has once Load has returned.
LoadSteps ==
    << "Load", "loadDebugMode", "loadUpdatePeriod", "loadWristJoint",
       "loadLeftFingerJoint", "loadRightFingerJoint", "initGripperManager",
       "GripperManager", "connectUpdate", "rosCheck", "loadWristTopic", "loadFingerTopic",
       "subscribe", "startThread", "idle" >>

LoadPositions == { LoadSteps[i] : i \in 1..(Len(LoadSteps) - 1) }

StepIndex(position) == CHOOSE i \in 1..Len(LoadSteps) : LoadSteps[i] = position

\* Per position of Load: the configuration makes its step end the process.
Fatal ==
    [ Load |-> FALSE,
      loadDebugMode |-> DebugAsked /\ HasElement(PrintDelay) /\ Get(PrintDelay) <= 0,
      loadUpdatePeriod |-> HasElement(sdf.updateRate) /\ Get(sdf.updateRate) <= 0,
      loadWristJoint |-> ~Resolves("wristJoint"),
      loadLeftFingerJoint |-> ~Resolves("leftFingerJoint"),
      loadRightFingerJoint |-> ~Resolves("rightFingerJoint"),
      initGripperManager |-> FALSE,
      GripperManager |-> LimitsInverted("wrist") \/ LimitsInverted("finger"),
      connectUpdate |-> FALSE,
      rosCheck |-> ~rosInitialized,
      loadWristTopic |-> sdf.wristTopic = Missing,
      loadFingerTopic |-> sdf.fingerTopic = Missing,
      subscribe |-> FALSE,
      startThread |-> FALSE ]

\* Per position whose step leaves a mark in a field of the plugin: the mark
\* is there.
Mark ==
    [ loadUpdatePeriod |-> updatePeriod # <<>>,
      loadWristJoint |-> wristJoint # "null",
      loadLeftFingerJoint |-> leftFingerJoint # "null",
      loadRightFingerJoint |-> rightFingerJoint # "null",
      GripperManager |-> gripperManager # <<>>,
      connectUpdate |-> updateConnection,
      rosCheck |-> rosNode # "null",
      loadWristTopic |-> \E o \in subscribeOptions : o.callback = "setWristAngleHandler",
      loadFingerTopic |-> \E o \in subscribeOptions : o.callback = "setFingerAngleHandler",
      subscribe |-> subscribers # {},
      startThread |-> rosQueueThread # "unstarted" ]

\* The steps before the i-th have passed and left their marks; the i-th and
\* the later ones have left none.
StoppedBefore(i) ==
    LET fatal == Fatal
        mark == Mark
    IN  \A j \in 1..(Len(LoadSteps) - 1) :
           /\ j < i => ~fatal[LoadSteps[j]]
           /\ LoadSteps[j] \in DOMAIN mark => (mark[LoadSteps[j]] <=> j < i)

\* The error diagnostics of Load.
LoadErrors ==
    { "error: printDelayInSeconds cannot be <= 0.0",
      "error: updateRate cannot be <= 0.0",
      "error: No <wristJoint> tag is defined",
      "error: No <leftFingerJoint> tag is defined",
      "error: No <rightFingerJoint> tag is defined",
      "error: No no_such_joint joint is defined",
      "error: invalid PIDSettings",
      "error: ROS must be initialized",
      "error: No <wristTopic> tag is defined",
      "error: No <fingerTopic> tag is defined" }

\* No step of Load finds a fatal condition in the configuration.
EveryCheckPasses == LET fatal == Fatal IN \A position \in LoadPositions : ~fatal[position]

\* C21: Load goes through its steps in the one order debug mode, update
\* period, wrist, left finger and right finger joint, PID settings and
\* manager, connection of the update handler, ROS check, wrist topic, finger
\* topic, subscriptions, start of the queue thread.  While Load is at a
\* step, the steps before it have passed their checks and left their marks
\* and no later step has left one; the first step whose check fails ends
\* the process with its one error diagnostic, and from then on nothing
\* changes.  The queue thread is started, and a desired angle is written by
\* a message, only when every check of Load has passed and Load has
\* returned.
C21_LoadOrdering ==
    /\ [](/\ pc \in LoadPositions =>
              /\ StoppedBefore(StepIndex(pc))
              /\ rosout \cap LoadErrors = {}
          /\ pc = "exited" =>
              /\ \E i \in 1..(Len(LoadSteps) - 1) :
                    Fatal[LoadSteps[i]] /\ StoppedBefore(i)
              /\ Cardinality(rosout \cap LoadErrors) = 1
          /\ (pc \notin LoadPositions \cup {"exited"}) =>
              /\ StoppedBefore(Len(LoadSteps))
              /\ rosout \cap LoadErrors = {}
          /\ (rosQueueThread # "unstarted"
                 \/ desiredWristAngle # 0 \/ desiredFingerAngle # 0) =>
              /\ EveryCheckPasses
              /\ pc \notin LoadPositions \cup {"exited"})
    /\ [][ /\ (pc \in LoadPositions /\ pc' # pc) =>
                 pc' = IF Fatal[pc] THEN "exited" ELSE LoadSteps[StepIndex(pc) + 1]
           /\ pc' \in LoadPositions => pc \in LoadPositions
           /\ pc' = "exited" => pc \in LoadPositions
           /\ pc # "exited"
           /\ (desiredWristAngle' # desiredWristAngle
                 \/ desiredFingerAngle' # desiredFingerAngle) =>
                 /\ EveryCheckPasses
                 /\ rosQueueThread # "unstarted"
         ]_vars

\* C21 witness: every check before the ROS check has passed, ROS is not
\* initialised and the wrist topic is missing; the process has exited at the
\* ROS check with the update handler connected and with no node, no
\* subscription and no thread.
C21_Witness ==
    /\ pc = "exited"
    /\ ~rosInitialized
    /\ sdf.wristTopic = Missing
    /\ StoppedBefore(StepIndex("rosCheck"))
    /\ updateConnection
    /\ rosNode = "null"
    /\ subscribeOptions = {}
    /\ rosQueueThread = "unstarted"
    /\ rosout \cap LoadErrors = {"error: ROS must be initialized"}

====
